---- MODULE Spec2Model ----
(***************************************************************************)
(* Model of the web_search tool of pi-parallel-web-search (src/index.ts):  *)
(* one invocation of execute (progress notification, provider call,        *)
(* error / cancelled / empty / success outcomes, result formatting and     *)
(* head truncation) and the renderResult presentation function.            *)
(*                                                                         *)
(* Strings are sequences of one-character strings, so that joins, splits,  *)
(* template literals, byte counts and line counts are computed and not     *)
(* assumed.  An optional value is a sequence of length at most one:        *)
(* <<>> is undefined / absent, <<v>> is the value v.                       *)
(***************************************************************************)
EXTENDS Integers, Sequences, FiniteSets, TLC

VARIABLES
    params,       \* the validated request: objective, search_queries, max_results
    hasOnUpdate,  \* whether the host supplied the onUpdate callback
    signal,       \* "undefined" (no signal), "live" or "aborted"
    pc,           \* position of execute: start, notified, awaiting, done, threw
    updates,      \* the partial results handed to onUpdate, in order
    callArgs,     \* <<>> before client.beta.search is called, then <<its argument>>
    settled,      \* <<>> while the call is pending, then <<how it settled>>
    checkedAbort, \* the values of signal?.aborted that execute read, in order
    blocks,       \* <<>> or <<the parts array of every result>>
    formatted,    \* <<>> or <<the formatted text>>
    truncation,   \* <<>> or <<the TruncationResult>>
    outcome,      \* <<>> or <<the result object execute returned>>
    thrown,       \* <<>> or <<the exception that left execute>>
    rendered      \* <<>> or <<the last renderResult call: result, flags, view>>

vars == <<params, hasOnUpdate, signal, pc, updates, callArgs, settled, checkedAbort,
          blocks, formatted, truncation, outcome, thrown, rendered>>

(***************************************************************************)
(* Bounds of the model.                                                    *)
(***************************************************************************)
\* longest result list a provider response holds
MaxResults == 2
\* the truncation limits, scaled down from the library defaults so that
\* formatted texts of a few results fall on both sides of either limit
DEFAULT_MAX_LINES == 6
DEFAULT_MAX_BYTES == 40

(***************************************************************************)
(* Program constants.                                                      *)
(***************************************************************************)
MinItems == 1
MaxItems == 5
DefaultMaxResults == 10
MaxCharsPerResult == 10000
PreviewLines == 40

(***************************************************************************)
(* Strings.                                                                *)
(***************************************************************************)
NL == "\n"
\* a character outside ASCII: two bytes in UTF-8
EACUTE == "U+00E9"

Digit == <<"0", "1", "2", "3", "4", "5", "6", "7", "8", "9">>

RECURSIVE ToStr(_)
\* String(n) of a natural number
ToStr(n) == IF n < 10 THEN <<Digit[n + 1]>> ELSE ToStr(n \div 10) \o <<Digit[(n % 10) + 1]>>

\* Buffer.byteLength of one character, utf-8
CharBytes(c) == IF c = EACUTE THEN 2 ELSE 1

\* Buffer.byteLength(s, "utf-8"): one byte per character and one more for
\* each two-byte character
ByteLength(s) == Len(s) + Cardinality({i \in 1..Len(s) : CharBytes(s[i]) = 2})

RECURSIVE Join(_, _)
\* Array.prototype.join
Join(parts, sep) ==
    IF parts = <<>> THEN <<>>
    ELSE IF Len(parts) = 1 THEN parts[1]
    ELSE parts[1] \o sep \o Join(Tail(parts), sep)

\* the positions of the newlines of s
NewlinesOf(s) == {i \in 1..Len(s) : s[i] = NL}

\* String.prototype.split("\n"): the text between consecutive newlines,
\* always at least one line
Split(s) ==
    LET nl == NewlinesOf(s)
        n == Cardinality(nl)
        \* the position of the k-th newline; 0 before the first line, Len(s) + 1 after the last
        at == [k \in 0..(n + 1) |->
                 IF k = 0 THEN 0
                 ELSE IF k = n + 1 THEN Len(s) + 1
                 ELSE CHOOSE i \in nl : Cardinality({j \in nl : j < i}) = k - 1]
    IN  [k \in 1..(n + 1) |-> SubSeq(s, at[k - 1] + 1, at[k] - 1)]

Take(s, n) == SubSeq(s, 1, IF n < Len(s) THEN n ELSE Len(s))

\* JavaScript truthiness of an optional string: present and not ""
Truthy(f) == f # <<>> /\ f[1] # <<>>

TextItem(t) == [type |-> "text", text |-> t]

(***************************************************************************)
(* The request (WebSearchParams, validated by the host before execute).    *)
(***************************************************************************)
\* a query list of every allowed length, alternating between the two queries
QueryLists ==
    {[i \in 1..n |-> IF i % 2 = 1 THEN <<"a">> ELSE <<"b">>] : n \in MinItems..MaxItems}

Objectives == {<<"o">>}

\* max_results is optional
MaxResultsArgs == {<<>>, <<20>>}

ParamsSet ==
    [objective : Objectives, search_queries : QueryLists, max_results : MaxResultsArgs]

(***************************************************************************)
(* execute: the progress notification and the provider call.               *)
(***************************************************************************)
\* the partial result passed to onUpdate
ProgressUpdate(p) ==
    [content |-> <<TextItem(<<"S", "e", "a", "r", "c", "h", "i", "n", "g", ":", " ">> \o Join(p.search_queries, <<",", " ">>))>>]

\* the argument of client.beta.search, max_results defaulted
SearchArgs(p) ==
    [objective |-> p.objective,
     search_queries |-> p.search_queries,
     max_results |-> IF p.max_results = <<>> THEN DefaultMaxResults ELSE p.max_results[1],
     max_chars_per_result |-> MaxCharsPerResult]

\* mutant: the count of results written where the count of queries belongs
DetailsCountingResults(p, n) ==
    [objective |-> p.objective,
     queryCount |-> n,
     resultCount |-> n,
     queries |-> p.search_queries]

\* the details object, built the same way in every branch but for resultCount
Details(p, n) ==
    [objective |-> p.objective,
     queryCount |-> Len(p.search_queries),
     resultCount |-> n,
     queries |-> p.search_queries]

(***************************************************************************)
(* What a run of execute's continuation produces: either a returned result *)
(* or an exception, with the locals it computed on the way.                *)
(***************************************************************************)
Returned(res, bl, fm, tr, chk) ==
    [returned |-> <<res>>, thrown |-> <<>>, blocks |-> bl, formatted |-> fm,
     truncation |-> tr, checked |-> chk]

Threw(chk) ==
    [returned |-> <<>>, thrown |-> <<"TypeError">>, blocks |-> <<>>, formatted |-> <<>>,
     truncation |-> <<>>, checked |-> chk]

\* `${err.message}` for a thrown object: the message, or "undefined" without one
MessageText(err) == IF err.message = <<>> THEN <<"u", "n", "d", "e", "f", "i", "n", "e", "d">> ELSE err.message[1]

\* the catch block: reading err.message of null or undefined is a TypeError
OnReject(err, p) ==
    IF err.type \in {"null", "undefined"} THEN Threw(<<>>)
    ELSE Returned([content |-> <<TextItem(<<"S", "e", "a", "r", "c", "h", " ", "f", "a", "i", "l", "e", "d", ":", " ">> \o MessageText(err))>>,
                   isError |-> TRUE,
                   details |-> Details(p, 0)], <<>>, <<>>, <<>>, <<>>)

CancelledResult(p) ==
    [content |-> <<TextItem(<<"S", "e", "a", "r", "c", "h", " ", "c", "a", "n", "c", "e", "l", "l", "e", "d">>)>>, details |-> Details(p, 0)]

EmptyResult(p) ==
    [content |-> <<TextItem(<<"N", "o", " ", "r", "e", "s", "u", "l", "t", "s", " ", "f", "o", "u", "n", "d", ".">>)>>, details |-> Details(p, 0)]

(***************************************************************************)
(* Result formatting.                                                      *)
(***************************************************************************)
Separator == <<NL, NL, "-", "-", "-", NL, NL>>

\* mutant: the priority of the body fields reversed
BodyPartsSnippetFirst(r) ==
    IF Truthy(r.snippet) THEN <<<<NL>> \o r.snippet[1]>>
    ELSE IF Truthy(r.text) THEN <<<<NL>> \o r.text[1]>>
    ELSE IF Truthy(r.content) THEN <<<<NL>> \o r.content[1]>>
    ELSE <<>>

\* the body paragraph of one result: content, else text, else snippet
BodyParts(r) ==
    IF Truthy(r.content) THEN <<<<NL>> \o r.content[1]>>
    ELSE IF Truthy(r.text) THEN <<<<NL>> \o r.text[1]>>
    ELSE IF Truthy(r.snippet) THEN <<<<NL>> \o r.snippet[1]>>
    ELSE <<>>

\* the parts array of the result at 1-based position i
BlockParts(r, i) ==
    <<<<"#", "#", " ", "R", "e", "s", "u", "l", "t", " ">> \o ToStr(i)>>
    \o (IF Truthy(r.title) THEN <<<<"*", "*", "T", "i", "t", "l", "e", ":", "*", "*", " ">> \o r.title[1]>> ELSE <<>>)
    \o (IF Truthy(r.url) THEN <<<<"*", "*", "U", "R", "L", ":", "*", "*", " ">> \o r.url[1]>> ELSE <<>>)
    \o BodyParts(r)

AllBlocks(results) == [i \in 1..Len(results) |-> BlockParts(results[i], i)]

Format(bl) == Join([i \in 1..Len(bl) |-> Join(bl[i], <<NL>>)], Separator)

(***************************************************************************)
(* Head truncation (truncateHead, formatSize of the host library).         *)
(***************************************************************************)
\* the number of leading lines, at most n, that fit in maxBytes joined by newlines
RECURSIVE FitLines(_, _, _)
FitLines(lines, n, maxBytes) ==
    IF n = 0 \/ ByteLength(Join(Take(lines, n), <<NL>>)) <= maxBytes THEN n
    ELSE FitLines(lines, n - 1, maxBytes)

truncateHead(text, maxLines, maxBytes) ==
    LET lines == Split(text)
        totalLines == Len(lines)
        totalBytes == ByteLength(text)
    IN  IF totalLines <= maxLines /\ totalBytes <= maxBytes
        THEN [content |-> text, truncated |-> FALSE,
              outputLines |-> totalLines, totalLines |-> totalLines,
              outputBytes |-> totalBytes, totalBytes |-> totalBytes]
        ELSE LET k == FitLines(lines, IF maxLines < totalLines THEN maxLines ELSE totalLines,
                               maxBytes)
                 kept == Join(Take(lines, k), <<NL>>)
             IN  [content |-> kept, truncated |-> TRUE,
                  outputLines |-> k, totalLines |-> totalLines,
                  outputBytes |-> ByteLength(kept), totalBytes |-> totalBytes]

\* a byte count as B, KB or MB with one decimal
formatSize(bytes) ==
    LET Tenths(unit) == ((bytes * 10) + (unit \div 2)) \div unit
        Fixed1(unit) == ToStr(Tenths(unit) \div 10) \o <<".">> \o ToStr(Tenths(unit) % 10)
    IN  IF bytes < 1024 THEN ToStr(bytes) \o <<"B">>
        ELSE IF bytes < 1024 * 1024 THEN Fixed1(1024) \o <<"K", "B">>
        ELSE Fixed1(1024 * 1024) \o <<"M", "B">>

\* mutant: the byte limit not applied
TruncateByLinesOnly(text) == truncateHead(text, DEFAULT_MAX_LINES, ByteLength(text))

\* the call execute makes, with the default limits
Truncate(text) == truncateHead(text, DEFAULT_MAX_LINES, DEFAULT_MAX_BYTES)

Footer(tr) ==
    <<NL, NL, "[", "O", "u", "t", "p", "u", "t", " ", "t", "r", "u", "n", "c", "a", "t", "e", "d", ":", " ", "s", "h", "o", "w", "i", "n", "g", " ">> \o ToStr(tr.outputLines) \o <<" ", "o", "f", " ">>
    \o ToStr(tr.totalLines) \o <<" ", "l", "i", "n", "e", "s">>
    \o <<" ", "(">> \o formatSize(tr.outputBytes) \o <<" ", "o", "f", " ">> \o formatSize(tr.totalBytes)
    \o <<")", ".", "]">>

\* mutant: the footer left out
ResultTextWithoutFooter(tr) == tr.content

\* resultText: the truncated content, with the footer when truncation was applied
ResultText(tr) == IF tr.truncated THEN tr.content \o Footer(tr) ELSE tr.content

(***************************************************************************)
(* execute after the provider call resolved with the response search.      *)
(***************************************************************************)
\* signal?.aborted
Aborted(sig) == sig = "aborted"

\* search.results ?? []
ResultsOf(search) == IF search.results = <<>> THEN <<>> ELSE search.results[1]

SuccessResult(p, results, tr) ==
    [content |-> <<TextItem(ResultText(tr))>>, details |-> Details(p, Len(results))]

\* mutant: the result list examined before the cancellation signal
OnResolveEmptyFirst(search, sig, p) ==
    IF search.type = "undefined" THEN Threw(<<>>)
    ELSE LET results == ResultsOf(search) IN
         IF Len(results) = 0 THEN Returned(EmptyResult(p), <<>>, <<>>, <<>>, <<>>)
         ELSE IF Aborted(sig) THEN Returned(CancelledResult(p), <<>>, <<>>, <<>>, <<TRUE>>)
         ELSE LET bl == AllBlocks(results)
                  fm == Format(bl)
                  tr == Truncate(fm)
              IN  Returned(SuccessResult(p, results, tr), <<bl>>, <<fm>>, <<tr>>, <<FALSE>>)

OnResolve(search, sig, p) ==
    IF Aborted(sig) THEN Returned(CancelledResult(p), <<>>, <<>>, <<>>, <<TRUE>>)
    ELSE IF search.type = "undefined" THEN Threw(<<FALSE>>)
    ELSE LET results == ResultsOf(search) IN
         IF Len(results) = 0 THEN Returned(EmptyResult(p), <<>>, <<>>, <<>>, <<FALSE>>)
         ELSE LET bl == AllBlocks(results)
                  fm == Format(bl)
                  tr == Truncate(fm)
              IN  Returned(SuccessResult(p, results, tr), <<bl>>, <<fm>>, <<tr>>, <<FALSE>>)

\* mutant: cancellation examined before the failure of the call
ContinuationCancelFirst(st, sig, p) ==
    IF Aborted(sig) THEN Returned(CancelledResult(p), <<>>, <<>>, <<>>, <<TRUE>>)
    ELSE IF st.kind = "rejected" THEN OnReject(st.value, p)
    ELSE OnResolve(st.value, sig, p)

\* the code after the await: the catch block, or the rest of the function
Continuation(st, sig, p) ==
    IF st.kind = "rejected" THEN OnReject(st.value, p) ELSE OnResolve(st.value, sig, p)

(***************************************************************************)
(* renderResult.  A Text is modelled by its styled segments, in order;     *)
(* theme.fg(color, s) is the segment [fg |-> color, text |-> s] and an     *)
(* unstyled newline is the segment Newline.                                *)
(***************************************************************************)
Fg(color, s) == [fg |-> color, text |-> s]

Newline == [fg |-> "none", text |-> <<NL>>]

\* result.isError, falsy when the field is not set
IsError(result) == "isError" \in DOMAIN result /\ result.isError

\* result.details as WebSearchDetails | undefined
DetailsOf(result) == IF "details" \in DOMAIN result THEN <<result.details>> ELSE <<>>

\* result.content[0]?.type === "text"
FirstIsText(result) == result.content # <<>> /\ result.content[1].type = "text"

SummaryText(d) ==
    ToStr(d.resultCount) \o <<" ", "r", "e", "s", "u", "l", "t", "s", " ", "f", "o", "r", " ">> \o ToStr(d.queryCount) \o <<" ">>
    \o (IF d.queryCount = 1 THEN <<"q", "u", "e", "r", "y">> ELSE <<"q", "u", "e", "r", "i", "e", "s">>)

RECURSIVE DimLines(_)
\* text += "\n" + theme.fg("dim", line), for every line
DimLines(lines) ==
    IF lines = <<>> THEN <<>>
    ELSE <<Newline, Fg("dim", Head(lines))>> \o DimLines(Tail(lines))

\* the lines appended to the summary when expanded
ExpandedPart(result) ==
    IF FirstIsText(result)
    THEN LET all == Split(result.content[1].text) IN
         DimLines(Take(all, PreviewLines))
         \o (IF Len(all) > PreviewLines THEN <<Newline, Fg("muted", <<".", ".", ".">>)>> ELSE <<>>)
    ELSE <<>>

\* mutant: the error checked before isPartial
renderResultErrorFirst(result, expanded, isPartial) ==
    IF IsError(result)
    THEN <<Fg("error", IF FirstIsText(result) THEN result.content[1].text ELSE <<"E", "r", "r", "o", "r">>)>>
    ELSE IF isPartial THEN <<Fg("warning", <<"S", "e", "a", "r", "c", "h", "i", "n", "g", " ", "t", "h", "e", " ", "w", "e", "b", ".", ".", ".">>)>>
    ELSE IF DetailsOf(result) = <<>> \/ DetailsOf(result)[1].resultCount = 0
    THEN <<Fg("dim", <<"N", "o", " ", "r", "e", "s", "u", "l", "t", "s", " ", "f", "o", "u", "n", "d">>)>>
    ELSE <<Fg("success", SummaryText(DetailsOf(result)[1]))>>
         \o (IF expanded THEN ExpandedPart(result) ELSE <<>>)

\* mutant: a result without results shown by its own text
renderResultShowingText(result, expanded, isPartial) ==
    IF isPartial THEN <<Fg("warning", <<"S", "e", "a", "r", "c", "h", "i", "n", "g", " ", "t", "h", "e", " ", "w", "e", "b", ".", ".", ".">>)>>
    ELSE IF IsError(result)
    THEN <<Fg("error", IF FirstIsText(result) THEN result.content[1].text ELSE <<"E", "r", "r", "o", "r">>)>>
    ELSE IF DetailsOf(result) = <<>> \/ DetailsOf(result)[1].resultCount = 0
    THEN <<Fg("dim", IF FirstIsText(result) THEN result.content[1].text
                     ELSE <<"N", "o", " ", "r", "e", "s", "u", "l", "t", "s", " ", "f", "o", "u", "n", "d">>)>>
    ELSE <<Fg("success", SummaryText(DetailsOf(result)[1]))>>
         \o (IF expanded THEN ExpandedPart(result) ELSE <<>>)

renderResult(result, expanded, isPartial) ==
    IF isPartial THEN <<Fg("warning", <<"S", "e", "a", "r", "c", "h", "i", "n", "g", " ", "t", "h", "e", " ", "w", "e", "b", ".", ".", ".">>)>>
    ELSE IF IsError(result)
    THEN <<Fg("error", IF FirstIsText(result) THEN result.content[1].text ELSE <<"E", "r", "r", "o", "r">>)>>
    ELSE IF DetailsOf(result) = <<>> \/ DetailsOf(result)[1].resultCount = 0
    THEN <<Fg("dim", <<"N", "o", " ", "r", "e", "s", "u", "l", "t", "s", " ", "f", "o", "u", "n", "d">>)>>
    ELSE <<Fg("success", SummaryText(DetailsOf(result)[1]))>>
         \o (IF expanded THEN ExpandedPart(result) ELSE <<>>)

(***************************************************************************)
(* What the provider may do.                                               *)
(***************************************************************************)
\* values a rejected call may carry: an Error with a message, a thrown
\* string (no message property), null and undefined
ErrorWith(m) == [type |-> "object", message |-> <<m>>]

Rejections ==
    {ErrorWith(<<"t", "i", "m", "e", "o", "u", "t">>), ErrorWith(<<>>),
     [type |-> "string", message |-> <<>>],
     [type |-> "null", message |-> <<>>],
     [type |-> "undefined", message |-> <<>>]}

\* a result record: every field optional
Record(ti, u, c, tx, sn) == [title |-> ti, url |-> u, content |-> c, text |-> tx, snippet |-> sn]

\* records of different shapes and sizes: heading only, a long title,
\* a three-line body, and every label with a two-line non-ASCII body
SomeRecords ==
    {Record(<<>>, <<>>, <<>>, <<>>, <<>>),
     Record(<<<<"T", "T", "T", "T", "T", "T", "T", "T">>>>, <<>>, <<>>, <<>>, <<>>),
     Record(<<>>, <<>>, <<<<"c", NL, "c", NL, "c">>>>, <<>>, <<<<"s">>>>),
     Record(<<<<"T", "T", "T", "T", "T", "T", "T", "T">>>>, <<<<"u">>>>, <<>>, <<<<EACUTE, NL, EACUTE>>>>, <<>>)}

\* every combination of absent, empty and non-empty fields
FieldCombinations ==
    {Record(ti, u, c, tx, sn) :
        ti \in {<<>>, <<<<>>>>, <<<<"T">>>>}, u \in {<<>>, <<<<>>>>, <<<<"u">>>>},
        c \in {<<>>, <<<<>>>>, <<<<"c">>>>}, tx \in {<<>>, <<<<>>>>, <<<<"t">>>>},
        sn \in {<<>>, <<<<>>>>, <<<<"s">>>>}}

ListsOf(S, n) == UNION {[1..k -> S] : k \in 0..n}

ResponseWith(results) == [type |-> "object", results |-> <<results>>]

\* a response that is undefined, one without a result list, and result lists
Responses ==
    {[type |-> "undefined", results |-> <<>>], [type |-> "object", results |-> <<>>]}
    \cup {ResponseWith(rs) : rs \in ListsOf(SomeRecords, MaxResults)}

FormatResponses == {ResponseWith(<<r>>) : r \in FieldCombinations}

(***************************************************************************)
(* Results renderResult may be handed, well-formed or not.                 *)
(***************************************************************************)
RenderParams(n) ==
    [objective |-> <<"o">>, search_queries |-> [i \in 1..n |-> <<"a">>], max_results |-> <<>>]

RenderContents ==
    {<<>>, <<[type |-> "image"]>>, <<TextItem(<<"x">>)>>, <<TextItem(<<"l", "1", NL, "l", "2">>)>>}

RenderInputs ==
    {[content |-> c, details |-> Details(RenderParams(q), n)] :
        c \in RenderContents, q \in 1..2, n \in 0..MaxResults}
    \cup {[content |-> c, isError |-> e, details |-> Details(RenderParams(q), n)] :
        c \in RenderContents, e \in BOOLEAN, q \in 1..2, n \in 0..MaxResults}
    \cup {[content |-> c] : c \in RenderContents}

(***************************************************************************)
(* The state machine.                                                      *)
(***************************************************************************)
InitWith(P) ==
    /\ params \in P
    /\ hasOnUpdate \in BOOLEAN
    /\ signal \in {"undefined", "live", "aborted"}
    /\ pc = "start"
    /\ updates = <<>>
    /\ callArgs = <<>>
    /\ settled = <<>>
    /\ checkedAbort = <<>>
    /\ blocks = <<>>
    /\ formatted = <<>>
    /\ truncation = <<>>
    /\ outcome = <<>>
    /\ thrown = <<>>
    /\ rendered = <<>>

Init == InitWith(ParamsSet)

\* execute up to the provider call: destructuring and onUpdate?.(...)
Begin ==
    /\ pc = "start"
    /\ updates' = IF hasOnUpdate THEN Append(updates, ProgressUpdate(params)) ELSE updates
    /\ pc' = "notified"
    /\ UNCHANGED <<params, hasOnUpdate, signal, callArgs, settled, checkedAbort, blocks,
                   formatted, truncation, outcome, thrown, rendered>>

\* mutant: the progress notification emitted once more after the call
CallProviderThenNotify ==
    /\ pc = "notified"
    /\ callArgs' = <<SearchArgs(params)>>
    /\ updates' = IF hasOnUpdate THEN Append(updates, ProgressUpdate(params)) ELSE updates
    /\ pc' = "awaiting"
    /\ UNCHANGED <<params, hasOnUpdate, signal, settled, checkedAbort, blocks,
                   formatted, truncation, outcome, thrown, rendered>>

\* client.beta.search(...) is called and execute suspends at the await
CallProvider ==
    /\ pc = "notified"
    /\ callArgs' = <<SearchArgs(params)>>
    /\ pc' = "awaiting"
    /\ UNCHANGED <<params, hasOnUpdate, signal, updates, settled, checkedAbort, blocks,
                   formatted, truncation, outcome, thrown, rendered>>

\* the call settles and execute runs to its end
Settle(st) ==
    /\ pc = "awaiting"
    /\ \E c \in {Continuation(st, signal, params)} :
        /\ settled' = <<st>>
        /\ checkedAbort' = checkedAbort \o c.checked
        /\ blocks' = c.blocks
        /\ formatted' = c.formatted
        /\ truncation' = c.truncation
        /\ outcome' = c.returned
        /\ thrown' = c.thrown
        /\ pc' = IF c.returned # <<>> THEN "done" ELSE "threw"
        /\ UNCHANGED <<params, hasOnUpdate, signal, updates, callArgs, rendered>>

Resolve(R) == \E search \in R : Settle([kind |-> "resolved", value |-> search])

Reject(E) == \E err \in E : Settle([kind |-> "rejected", value |-> err])

\* the host aborts the signal; it can do so at any time except inside the
\* synchronous run from Begin to the call
Abort ==
    /\ signal = "live"
    /\ pc # "notified"
    /\ signal' = "aborted"
    /\ UNCHANGED <<params, hasOnUpdate, pc, updates, callArgs, settled, checkedAbort, blocks,
                   formatted, truncation, outcome, thrown, rendered>>

Render(result, expanded, isPartial) ==
    /\ rendered' = <<[result |-> result, expanded |-> expanded, isPartial |-> isPartial,
                      view |-> renderResult(result, expanded, isPartial)]>>
    /\ UNCHANGED <<params, hasOnUpdate, signal, pc, updates, callArgs, settled, checkedAbort,
                   blocks, formatted, truncation, outcome, thrown>>

\* the host renders the progress update while the call is in flight
RenderPartial ==
    /\ pc = "awaiting"
    /\ updates # <<>>
    /\ \E expanded \in BOOLEAN : Render(updates[Len(updates)], expanded, TRUE)

\* the host renders the returned result
RenderOutcome ==
    /\ pc = "done"
    /\ \E expanded \in BOOLEAN : Render(outcome[1], expanded, FALSE)

\* renderResult applied to any result and any display flags
RenderAny ==
    \E result \in RenderInputs, expanded \in BOOLEAN, isPartial \in BOOLEAN :
        Render(result, expanded, isPartial)

Next ==
    \/ Begin
    \/ CallProvider
    \/ Resolve(Responses)
    \/ Reject(Rejections)
    \/ Abort
    \/ RenderPartial
    \/ RenderOutcome

Spec == Init /\ [][Next]_vars

\* one request, every combination of fields of a single result record
FormatParams == {p \in ParamsSet : Len(p.search_queries) = 1 /\ p.max_results = <<>>}

InitFormat == InitWith(FormatParams)

NextFormat ==
    \/ Begin
    \/ CallProvider
    \/ Resolve(FormatResponses)

SpecFormat == InitFormat /\ [][NextFormat]_vars

\* renderResult as a function of any result and any flags
NextRender == RenderAny

SpecRender == InitFormat /\ [][NextRender]_vars

(***************************************************************************)
(* Properties.                                                             *)
(***************************************************************************)
IsPrefix(p, s) == Len(p) <= Len(s) /\ SubSeq(s, 1, Len(p)) = p

Rejected == settled # <<>> /\ settled[1].kind = "rejected"

Resolved == settled # <<>> /\ settled[1].kind = "resolved"

\* the text of the single content item of the returned result
OutcomeText == outcome[1].content[1].text

\* C1: when the provider call throws an error with message m, execute
\* returns isError = true, the text "Search failed: " followed by m and
\* resultCount = 0, whatever the state of the cancellation signal.
C1_ProviderFailure ==
    (Rejected /\ settled[1].value.type = "object" /\ settled[1].value.message # <<>>) =>
        /\ outcome # <<>>
        /\ "isError" \in DOMAIN outcome[1] /\ outcome[1].isError = TRUE
        /\ outcome[1].content = <<TextItem(<<"S", "e", "a", "r", "c", "h", " ", "f", "a", "i", "l", "e", "d", ":", " ">> \o settled[1].value.message[1])>>
        /\ outcome[1].details.resultCount = 0

\* the provider threw Error("timeout") while the signal was aborted
C1_Witness ==
    /\ Rejected /\ settled[1].value = ErrorWith(<<"t", "i", "m", "e", "o", "u", "t">>)
    /\ signal = "aborted"
    /\ pc = "done"

\* the returned result is the cancelled outcome
IsCancelledOutcome(o) ==
    /\ o.content = <<TextItem(<<"S", "e", "a", "r", "c", "h", " ", "c", "a", "n", "c", "e", "l", "l", "e", "d">>)>>
    /\ ~("isError" \in DOMAIN o /\ o.isError)
    /\ o.details.resultCount = 0

\* C2: after a provider call that returned, the cancelled outcome is
\* returned if and only if the signal is aborted when the call returns; the
\* signal is read once, then and only then; an aborted signal does not keep
\* the provider call from being made or pending; and a returned outcome
\* never changes afterwards.
C2_CancelledIffAbortedAtCheck ==
    /\ [](pc = "start" => ENABLED Begin)
    /\ [](pc = "notified" => ENABLED CallProvider)
    /\ [](pc = "awaiting" => (outcome = <<>> /\ thrown = <<>> /\ checkedAbort = <<>>))
    /\ [][/\ (pc = "awaiting" /\ Resolved')
               => /\ (outcome' # <<>> /\ IsCancelledOutcome(outcome'[1])) <=> (signal = "aborted")
                  /\ checkedAbort' = <<signal = "aborted">>
          /\ (pc # "awaiting") => checkedAbort' = checkedAbort
          /\ (pc = "notified" /\ pc' # pc) => (pc' = "awaiting" /\ callArgs' # <<>>)
          /\ (signal' # signal) => (pc' = pc /\ settled' = settled /\ callArgs' = callArgs)
          /\ (outcome # <<>>) => outcome' = outcome]_vars

\* a non-empty result list was returned and discarded as cancelled
C2_Witness ==
    /\ Resolved /\ settled[1].value.results # <<>> /\ Len(settled[1].value.results[1]) > 0
    /\ outcome # <<>> /\ IsCancelledOutcome(outcome[1])

\* C3: execute always ends by returning a result with one text item and
\* details, and never throws, whatever the provider throws or returns.
C3_NeverThrows ==
    (settled # <<>>) =>
        /\ thrown = <<>>
        /\ outcome # <<>>
        /\ Len(outcome[1].content) = 1 /\ outcome[1].content[1].type = "text"
        /\ "details" \in DOMAIN outcome[1]

\* C4: details.queryCount is the number of input queries and
\* details.queries is the input query list, in every returned outcome.
C4_QueriesEchoed ==
    (outcome # <<>>) =>
        /\ outcome[1].details.queryCount = Len(params.search_queries)
        /\ outcome[1].details.queries = params.search_queries

\* five queries, not all the same, echoed by a cancelled outcome
C4_Witness ==
    /\ outcome # <<>> /\ IsCancelledOutcome(outcome[1])
    /\ Len(params.search_queries) = MaxItems
    /\ params.search_queries[1] # params.search_queries[2]

\* the progress notifications an invocation must have emitted once the call began
ExpectedUpdates ==
    IF hasOnUpdate
    THEN <<[content |-> <<TextItem(<<"S", "e", "a", "r", "c", "h", "i", "n", "g", ":", " ">> \o Join(params.search_queries, <<",", " ">>))>>]>>
    ELSE <<>>

\* C5: the progress notification is emitted before the provider call
\* begins, exactly once with a callback and never without one, and never
\* after the call has begun.
C5_ProgressBeforeCall ==
    /\ [](Len(updates) <= 1 /\ (callArgs # <<>> => updates = ExpectedUpdates))
    /\ [][/\ (updates' # updates) => (callArgs = <<>> /\ callArgs' = <<>>)
          /\ (callArgs # <<>>) => updates' = updates]_vars

\* an invocation with a callback and three queries ran to its end
C5_Witness ==
    /\ pc = "done" /\ hasOnUpdate /\ Len(updates) = 1
    /\ Len(params.search_queries) = 3

\* C6: the content truncateHead produces on the success path is a prefix
\* of the formatted text, of at most maxBytes bytes and at most maxLines lines.
C6_TruncationWithinBothBounds ==
    (truncation # <<>>) =>
        /\ IsPrefix(truncation[1].content, formatted[1])
        /\ ByteLength(truncation[1].content) <= DEFAULT_MAX_BYTES
        /\ Len(Split(truncation[1].content)) <= DEFAULT_MAX_LINES
        /\ truncation[1].outputLines <= DEFAULT_MAX_LINES
        /\ truncation[1].outputBytes <= DEFAULT_MAX_BYTES

\* a formatted text over both limits was cut
C6_Witness ==
    /\ truncation # <<>>
    /\ truncation[1].totalLines > DEFAULT_MAX_LINES
    /\ truncation[1].totalBytes > DEFAULT_MAX_BYTES
    /\ truncation[1].outputLines > 0

\* the parts of a block that are body paragraphs: they start with a newline
BodyIndexes(parts) == {j \in 1..Len(parts) : parts[j] # <<>> /\ parts[j][1] = NL}

\* a body paragraph of the block is the value of the field f
RenderedFrom(parts, f) == f # <<>> /\ \E j \in BodyIndexes(parts) : parts[j] = <<NL>> \o f[1]

ResultsReturned == settled[1].value.results[1]

\* C7 as stated: the body is never taken from snippet if content or text is
\* present, never from text if content is present, and there is at most one body.
C7_PriorityByPresence ==
    (blocks # <<>>) =>
        \A i \in 1..Len(blocks[1]) :
            LET r == ResultsReturned[i]
                parts == blocks[1][i]
            IN  /\ (r.content # <<>> \/ r.text # <<>>) => ~RenderedFrom(parts, r.snippet)
                /\ (r.content # <<>>) => ~RenderedFrom(parts, r.text)
                /\ Cardinality(BodyIndexes(parts)) <= 1

\* C7 amended: the same with "present" read as present and not empty, and
\* the field that wins is the one rendered.
C7_PriorityByTruthiness ==
    (blocks # <<>>) =>
        \A i \in 1..Len(blocks[1]) :
            LET r == ResultsReturned[i]
                parts == blocks[1][i]
            IN  /\ (Truthy(r.content) \/ Truthy(r.text)) => ~RenderedFrom(parts, r.snippet)
                /\ Truthy(r.content) => (~RenderedFrom(parts, r.text) /\ RenderedFrom(parts, r.content))
                /\ (~Truthy(r.content) /\ Truthy(r.text)) => RenderedFrom(parts, r.text)
                /\ Cardinality(BodyIndexes(parts)) <= 1

\* a record with content, text and snippet all non-empty was formatted
C7_Witness ==
    /\ blocks # <<>>
    /\ Truthy(ResultsReturned[1].content)
    /\ Truthy(ResultsReturned[1].text)
    /\ Truthy(ResultsReturned[1].snippet)

\* an outcome in the sense of execute: details and one text item
IsOutcome(result) ==
    /\ "details" \in DOMAIN result
    /\ Len(result.content) = 1 /\ result.content[1].type = "text"

\* C8: renderResult shows, in this order of precedence, the searching
\* indicator if isPartial, the error text if the outcome is an error, the
\* "No results found" indicator if resultCount is 0, and otherwise the
\* success summary; expanded changes the success presentation only.
C8_RenderPrecedence ==
    (rendered # <<>> /\ IsOutcome(rendered[1].result)) =>
        LET res == rendered[1].result
            view == rendered[1].view
            isErr == "isError" \in DOMAIN res /\ res.isError
            other == renderResult(res, ~rendered[1].expanded, rendered[1].isPartial)
        IN  IF rendered[1].isPartial
            THEN view = <<Fg("warning", <<"S", "e", "a", "r", "c", "h", "i", "n", "g", " ", "t", "h", "e", " ", "w", "e", "b", ".", ".", ".">>)>> /\ other = view
            ELSE IF isErr
            THEN view = <<Fg("error", res.content[1].text)>> /\ other = view
            ELSE IF res.details.resultCount = 0
            THEN view = <<Fg("dim", <<"N", "o", " ", "r", "e", "s", "u", "l", "t", "s", " ", "f", "o", "u", "n", "d">>)>> /\ other = view
            ELSE /\ view[1].fg = "success"
                 /\ \A j \in 2..Len(view) : view[j].fg \in {"none", "dim", "muted"}
                 /\ rendered[1].expanded => (Len(view) > 1 /\ Len(other) = 1)
                 /\ ~rendered[1].expanded => (Len(view) = 1 /\ Len(other) > 1)

\* an error outcome with results was rendered as partial
C8_Witness ==
    /\ rendered # <<>> /\ IsOutcome(rendered[1].result)
    /\ rendered[1].isPartial
    /\ "isError" \in DOMAIN rendered[1].result /\ rendered[1].result.isError
    /\ rendered[1].result.details.resultCount > 0

\* the start of the footer for x lines shown of y
FooterHead(x, y) ==
    <<NL, NL, "[", "O", "u", "t", "p", "u", "t", " ", "t", "r", "u", "n", "c", "a", "t", "e", "d", ":", " ", "s", "h", "o", "w", "i", "n", "g", " ">> \o ToStr(x) \o <<" ", "o", "f", " ">> \o ToStr(y) \o <<" ", "l", "i", "n", "e", "s", " ", "(">>

\* the first maxLines lines of the formatted text, whose lines are given
FirstMaxLines(lines) == Join(Take(lines, DEFAULT_MAX_LINES), <<NL>>)

\* the returned text is the first maxLines lines and one footer line
ShowsFirstMaxLines(lines) ==
    /\ IsPrefix(FirstMaxLines(lines) \o FooterHead(DEFAULT_MAX_LINES, Len(lines)), OutcomeText)
    /\ Len(Split(OutcomeText)) = DEFAULT_MAX_LINES + 2

\* the footer is appended if and only if truncation was applied, and a text
\* within both limits is returned whole with the number of results
FooterIffTruncated(lines) ==
    /\ truncation[1].truncated <=> (OutcomeText # truncation[1].content)
    /\ truncation[1].truncated =>
         IsPrefix(truncation[1].content
                    \o FooterHead(Len(Split(truncation[1].content)), Len(lines)),
                  OutcomeText)
    /\ (Len(lines) <= DEFAULT_MAX_LINES /\ ByteLength(formatted[1]) <= DEFAULT_MAX_BYTES) =>
         /\ ~truncation[1].truncated
         /\ OutcomeText = formatted[1]
         /\ outcome[1].details.resultCount = Len(ResultsReturned)

\* C9 as stated: the footer is appended if and only if truncation was
\* applied; a text within both limits is returned whole; and a text of more
\* than maxLines lines is returned as its first maxLines lines followed by
\* one footer.
C9_FooterAndFirstMaxLines ==
    (truncation # <<>>) =>
        LET lines == Split(formatted[1]) IN
        /\ FooterIffTruncated(lines)
        /\ (Len(lines) > DEFAULT_MAX_LINES) => ShowsFirstMaxLines(lines)

\* C9 amended: the same, but a text of more than maxLines lines is
\* returned as its first maxLines lines followed by one footer when those
\* lines fit in maxBytes; when they do not, fewer lines are returned.
C9_FooterAndFirstMaxLinesThatFit ==
    (truncation # <<>>) =>
        LET lines == Split(formatted[1]) IN
        /\ FooterIffTruncated(lines)
        /\ (Len(lines) > DEFAULT_MAX_LINES)
             => IF ByteLength(FirstMaxLines(lines)) <= DEFAULT_MAX_BYTES
                THEN ShowsFirstMaxLines(lines)
                ELSE truncation[1].outputLines < DEFAULT_MAX_LINES

\* a text over the line limit only was cut to maxLines lines
C9_Witness ==
    /\ truncation # <<>>
    /\ truncation[1].totalLines > DEFAULT_MAX_LINES
    /\ ByteLength(formatted[1]) <= DEFAULT_MAX_BYTES
    /\ truncation[1].truncated

\* some segment of the view carries the text s
Displays(view, s) == \E j \in 1..Len(view) : view[j].text = s

\* C10: rendered without isPartial, an outcome of execute shows the summary
\* "<n> results for <q> query/queries" if and only if the call returned, the
\* signal was not aborted at the check and n >= 1 results came back; an
\* error outcome shows its "Search failed: ..." text; the cancelled and the
\* empty outcome both show "No results found", never "Search cancelled".
C10_RenderOfOutcome ==
    (rendered # <<>> /\ ~rendered[1].isPartial) =>
        LET view == rendered[1].view
            d == outcome[1].details
            n == IF Resolved /\ settled[1].value.results # <<>> THEN Len(ResultsReturned) ELSE 0
            summary == ToStr(n) \o <<" ", "r", "e", "s", "u", "l", "t", "s", " ", "f", "o", "r", " ">> \o ToStr(Len(params.search_queries))
                       \o (IF Len(params.search_queries) = 1 THEN <<" ", "q", "u", "e", "r", "y">> ELSE <<" ", "q", "u", "e", "r", "i", "e", "s">>)
        IN  /\ rendered[1].result = outcome[1]
            /\ (view[1] = Fg("success", summary))
                 <=> (Resolved /\ checkedAbort = <<FALSE>> /\ n >= 1)
            /\ view[1].fg = "success" => (view[1].text = summary /\ d.resultCount = n)
            /\ Rejected =>
                 view = <<Fg("error", <<"S", "e", "a", "r", "c", "h", " ", "f", "a", "i", "l", "e", "d", ":", " ">> \o MessageText(settled[1].value))>>
            /\ (Resolved /\ (checkedAbort = <<TRUE>> \/ n = 0)) =>
                 view = <<Fg("dim", <<"N", "o", " ", "r", "e", "s", "u", "l", "t", "s", " ", "f", "o", "u", "n", "d">>)>>
            /\ ~Displays(view, <<"S", "e", "a", "r", "c", "h", " ", "c", "a", "n", "c", "e", "l", "l", "e", "d">>)

\* a cancelled outcome was rendered
C10_Witness ==
    /\ rendered # <<>> /\ ~rendered[1].isPartial
    /\ IsCancelledOutcome(rendered[1].result)

====
